---- MODULE Spec2Model ----
(***************************************************************************)
(* The data plane of the actor runtime: Address -> Postman -> bounded mpsc *)
(* channel -> Mailbox -> Envelope/Packet dispatch under the three          *)
(* execution variants, with the one-shot reply slot of every ask; the      *)
(* control plane ServicePostman -> ServiceMailbox; and the lifecycle       *)
(* status watch channel read by Address.                                   *)
(***************************************************************************)
EXTENDS Integers, Sequences, FiniteSets, TLC

\* ------------------------------------------------------------ bounds
\* Number of calls (send / ask / ask_with_timeout) issued in one behaviour.
MaxMsgs == 3
\* Capacity of the bounded data-plane channel.
Capacity == 2

\* Number of ServiceCommands sent in one behaviour.
MaxCmds == 3
\* Capacity of the bounded control channel.
ServiceCapacity == 1

\* Number of lifecycle status writes in one behaviour.
MaxWrites == 3

Msgs == 1..MaxMsgs
Cmds == 1..MaxCmds
Producers == {"p1", "p2"}

\* ------------------------------------------------------------ values
\* Option::None of Packet.message / Packet.reply_address.
NoneV == 0

Variants == {"Sequential", "Concurrent", "Parallel"}

\* The error the mailbox loop hands to reply_error when it cannot route an
\* envelope.
RoutingErrors == {"NotRouted"}

NoVal == [kind |-> "None", msg |-> 0, seen |-> 0, err |-> "-"]
OkVal(r) == [kind |-> "Ok", msg |-> r.msg, seen |-> r.seen, err |-> "-"]
ErrVal(e) == [kind |-> "Err", msg |-> 0, seen |-> 0, err |-> e]
\* Ok(()) of send.
OkUnit == [kind |-> "Ok", msg |-> 0, seen |-> 0, err |-> "-"]

\* ------------------------------------------------------------ the handler
\* The actor used throughout: its state is the log of the message
\* identifiers it has handled; the response names the message and how many
\* messages the actor had seen when it was handled.
InitialPuppet == << >>
Response(p, m) == [msg |-> m, seen |-> Len(p)]
Handle(p, m) == Append(p, m)

\* ------------------------------------------------------------ packets
WithoutReply(m) == [message |-> m, reply_address |-> NoneV]
WithReply(m, r) == [message |-> m, reply_address |-> r]
NoEnvelope == [message |-> NoneV, reply_address |-> NoneV]

\* ------------------------------------------------------------ reply slots
NoSlot == [tx |-> "none", rx |-> "none", val |-> NoVal]
OneshotChannel == [tx |-> "live", rx |-> "live", val |-> NoVal]
OneshotSendOk(s) == s.rx = "live"
OneshotSend(s, v) ==
    IF OneshotSendOk(s) THEN [s EXCEPT !.tx = "used", !.val = v]
    ELSE [s EXCEPT !.tx = "used"]
DropSender(s) == IF s.tx = "live" THEN [s EXCEPT !.tx = "dropped"] ELSE s
DropReceiver(s) == IF s.rx = "live" THEN [s EXCEPT !.rx = "dropped"] ELSE s
\* res_rx.await is ready with Ok(value) or with Err(RecvError).
OneshotReady(s) == s.val.kind # "None" \/ s.tx = "dropped"
OneshotRecv(s) == IF s.val.kind # "None" THEN [ok |-> TRUE, val |-> s.val]
                  ELSE [ok |-> FALSE, val |-> NoVal]

\* ------------------------------------------------------------ status
\* LifecycleStatus values, and the one an actor is created with.
Statuses == {"Created", "Active", "Stopped"}
InitialStatus == "Created"

VARIABLES
    variant,      \* ExecutionVariant of the actor type
    puppet,       \* the actor's canonical state
    queue,        \* envelopes in the data-plane channel
    closed,       \* the Mailbox (receiver) has been dropped
    actor,        \* position of the mailbox loop
    cur,          \* envelope held by the mailbox loop
    running,      \* locals of the Sequential handle_message in flight
    tasks,        \* handler tasks spawned and not yet completed
    slot,         \* one-shot reply channel of every ask
    op,           \* which call carried message m
    owner,        \* the producer that issued it
    callst,       \* position of that call
    result,       \* what the call returned
    expired,      \* asks whose duration elapsed before any reply
    issuedClosed, \* calls issued after the mailbox was dropped
    sent,         \* envelopes in the order they entered the channel
    handled,      \* messages in the order the handler was invoked
    completed,    \* messages in the order their handler returned
    rejected,     \* messages answered by reply_error
    discarded,    \* messages dropped with the mailbox
    swallowed,    \* messages whose reply delivery failed
    hmRet,        \* what handle_message / reply_error returned per message
    deliveries,   \* how many values were put into the reply slot of m
    senders,      \* the producers that still hold their Postman
    atClose,      \* what was queued when the last Postman was dropped
    cqueue,       \* ServicePackets in the control channel
    cclosed,      \* the ServiceMailbox has been dropped
    cactor,       \* position of the consumer of the control channel
    ccur,         \* ServicePacket it holds
    cslot,        \* one-shot reply channel of every command
    cst,          \* position of the call that sent command c
    cres,         \* what that call returned
    acks,         \* how many values were put into the reply slot of c
    wval,         \* the value in the status watch channel
    wver,         \* its version: the number of writes so far
    wsrc,         \* the watch Sender is alive
    writes,       \* the statuses written, in order
    cbpc,         \* position of the task spawned by on_status_change
    cbver,        \* the version its receiver has marked seen
    cbreg,        \* the version at which the callback was registered
    cbgot         \* what the callback was invoked with, in order

callVars == <<op, owner, callst, result, expired, issuedClosed>>
actorVars == <<variant, puppet, actor, cur, running, tasks>>
histVars == <<handled, completed, rejected, discarded, swallowed, hmRet,
              deliveries>>
\* What the calls and the dispatch of the data plane never write.
ctlVars == <<cqueue, cclosed, cactor, ccur, cslot, cst, cres, acks>>
dataVars == <<queue, closed, slot, sent, callVars, actorVars, histVars,
              senders, atClose>>
statusVars == <<wval, wver, wsrc, writes, cbpc, cbver, cbreg, cbgot>>
otherVars == <<senders, atClose, ctlVars, statusVars>>
vars == <<variant, puppet, queue, closed, actor, cur, running, tasks, slot,
          op, owner, callst, result, expired, issuedClosed, sent, handled,
          completed, rejected, discarded, swallowed, hmRet, deliveries,
          otherVars>>

NoRun == [msg |-> NoneV, reply_address |-> NoneV]

Init ==
    /\ variant \in Variants
    /\ puppet = InitialPuppet
    /\ queue = << >>
    /\ closed = FALSE
    /\ actor = "idle"
    /\ cur = NoEnvelope
    /\ running = NoRun
    /\ tasks = {}
    /\ slot = [m \in Msgs |-> NoSlot]
    /\ op = [m \in Msgs |-> "none"]
    /\ owner = [m \in Msgs |-> "-"]
    /\ callst = [m \in Msgs |-> "unissued"]
    /\ result = [m \in Msgs |-> NoVal]
    /\ expired = {}
    /\ issuedClosed = {}
    /\ sent = << >>
    /\ handled = << >>
    /\ completed = << >>
    /\ rejected = {}
    /\ discarded = {}
    /\ swallowed = {}
    /\ hmRet = [m \in Msgs |-> "-"]
    /\ deliveries = [m \in Msgs |-> 0]
    /\ senders = Producers
    /\ atClose = << >>
    /\ cqueue = << >>
    /\ cclosed = FALSE
    /\ cactor = "idle"
    /\ ccur = NoneV
    /\ cslot = [c \in Cmds |-> NoSlot]
    /\ cst = [c \in Cmds |-> "unissued"]
    /\ cres = [c \in Cmds |-> NoVal]
    /\ acks = [c \in Cmds |-> 0]
    /\ wval = InitialStatus
    /\ wver = 0
    /\ wsrc = TRUE
    /\ writes = << >>
    /\ cbpc = "none"
    /\ cbver = 0
    /\ cbreg = 0
    /\ cbgot = << >>

\* ------------------------------------------------------------ Postman
Issued == {m \in Msgs : op[m] # "none"}
NextId == Cardinality(Issued) + 1
\* A producer is one task: it issues its next call once the previous one has
\* returned or was abandoned.
ProducerFree(p) ==
    \A m \in Msgs : owner[m] = p => callst[m] \notin {"blocked", "awaiting"}
\* The producers are interchangeable clones of one Address: the first call
\* of a behaviour is taken to be p1's.
ProducerTurn(p) ==
    p = "p1" \/ "p1" \notin senders \/ \E m \in Msgs : owner[m] = "p1"

PacketOf(m, k) == IF k = "send" THEN WithoutReply(m) ELSE WithReply(m, m)

\* map_err(|_| PuppeterError::MessageSendError)
SendErrorKind == "MessageSendError"

\* (mutant) a send that does not notice that the receiver is gone.
TxSendOutcomeIgnoresClosed ==
    IF Len(queue) < Capacity THEN "pushed" ELSE "full"

\* (mutant) a send that fails on a full channel instead of suspending.
TxSendOutcomeFailsWhenFull ==
    IF closed \/ Len(queue) >= Capacity THEN "closed" ELSE "pushed"

\* (mutant) a send into a channel without a capacity.
TxSendOutcomeUnbounded == IF closed THEN "closed" ELSE "pushed"

\* self.tx.send(..).await: fails when the receiver is gone, pushes when there
\* is room, suspends the caller otherwise.
TxSendOutcome == IF closed THEN "closed"
                 ELSE IF Len(queue) < Capacity THEN "pushed" ELSE "full"

\* What the call does once tx.send has pushed or failed.
StateAfterPush(k) == IF k = "send" THEN "returned" ELSE "awaiting"

TxSend(m, k, sl) ==
    CASE TxSendOutcome = "closed" ->
            /\ callst' = [callst EXCEPT ![m] = "returned"]
            /\ result' = [result EXCEPT ![m] = ErrVal(SendErrorKind)]
            /\ slot' = [sl EXCEPT ![m] = DropReceiver(DropSender(sl[m]))]
            /\ UNCHANGED <<queue, sent>>
      [] TxSendOutcome = "pushed" ->
            /\ queue' = Append(queue, PacketOf(m, k))
            /\ sent' = Append(sent, PacketOf(m, k))
            /\ callst' = [callst EXCEPT ![m] = StateAfterPush(k)]
            /\ result' = IF k = "send" THEN [result EXCEPT ![m] = OkUnit]
                         ELSE result
            /\ slot' = sl
      [] TxSendOutcome = "full" ->
            /\ callst' = [callst EXCEPT ![m] = "blocked"]
            /\ slot' = sl
            /\ UNCHANGED <<queue, sent, result>>

Issue(p, k) ==
    LET m == NextId IN
    /\ m \in Msgs
    /\ p \in senders
    /\ ProducerFree(p)
    /\ ProducerTurn(p)
    /\ op' = [op EXCEPT ![m] = k]
    /\ owner' = [owner EXCEPT ![m] = p]
    /\ issuedClosed' = IF closed THEN issuedClosed \cup {m} ELSE issuedClosed
    /\ TxSend(m, k, IF k = "send" THEN slot
                    ELSE [slot EXCEPT ![m] = OneshotChannel])
    /\ UNCHANGED <<expired, closed>>
    /\ UNCHANGED actorVars
    /\ UNCHANGED histVars
    /\ UNCHANGED otherVars

\* Address::send -> Postman::send
AddressSend(p) == Issue(p, "send")

\* Address::ask -> Postman::send_and_await_response
AddressAsk(p) == Issue(p, "ask")

\* Address::ask_with_timeout -> Postman::send_and_await_response
AddressAskWithTimeout(p) == Issue(p, "ask_with_timeout")

\* A call suspended on a full channel goes on once there is room, or fails
\* once the receiver is gone.
SendResume(m) ==
    /\ callst[m] = "blocked"
    /\ TxSendOutcome # "full"
    /\ TxSend(m, op[m], slot)
    /\ UNCHANGED <<op, owner, expired, issuedClosed, closed>>
    /\ UNCHANGED actorVars
    /\ UNCHANGED histVars
    /\ UNCHANGED otherVars

\* (mutant) a dropped reply slot reported as a send failure.
AwaitResultSendError(rcv) ==
    IF rcv.ok THEN rcv.val ELSE ErrVal("MessageSendError")

\* (mutant) a received Ok(Ok(r)) reported as a receive failure.
AwaitResultDropsValue(rcv) ==
    IF rcv.ok /\ rcv.val.kind = "Err" THEN rcv.val
    ELSE ErrVal("MessageResponseReceiveError")

\* match res_rx.await { Ok(Ok(r)) => Ok(r), Ok(Err(e)) => Err(e),
\*                      Err(_) => Err(MessageResponseReceiveError) }
AwaitResult(rcv) ==
    IF rcv.ok THEN rcv.val ELSE ErrVal("MessageResponseReceiveError")

AwaitResponse(m) ==
    /\ callst[m] = "awaiting"
    /\ OneshotReady(slot[m])
    /\ result' = [result EXCEPT ![m] = AwaitResult(OneshotRecv(slot[m]))]
    /\ callst' = [callst EXCEPT ![m] = "returned"]
    /\ slot' = [slot EXCEPT ![m] = DropReceiver(slot[m])]
    /\ UNCHANGED <<op, owner, expired, issuedClosed, queue, sent, closed>>
    /\ UNCHANGED actorVars
    /\ UNCHANGED histVars
    /\ UNCHANGED otherVars

\* The caller drops the future of its ask while it awaits the reply: res_rx
\* is dropped with it.
Abandon(m) ==
    /\ callst[m] = "awaiting"
    /\ callst' = [callst EXCEPT ![m] = "abandoned"]
    /\ slot' = [slot EXCEPT ![m] = DropReceiver(slot[m])]
    /\ UNCHANGED <<op, owner, result, expired, issuedClosed, queue, sent,
                   closed>>
    /\ UNCHANGED actorVars
    /\ UNCHANGED histVars
    /\ UNCHANGED otherVars

\* The duration given to ask_with_timeout runs out before a reply is there.
DurationElapses(m) ==
    /\ op[m] = "ask_with_timeout"
    /\ callst[m] \in {"blocked", "awaiting"}
    /\ slot[m].val.kind = "None"
    /\ m \notin expired
    /\ expired' = expired \cup {m}
    /\ UNCHANGED <<op, owner, callst, result, issuedClosed, queue, sent,
                   closed, slot>>
    /\ UNCHANGED actorVars
    /\ UNCHANGED histVars
    /\ UNCHANGED otherVars

\* ------------------------------------------------------------ Mailbox
QueueMsgs == [i \in 1..Len(queue) |-> queue[i].message]

\* (mutant) recv that hands out the newest envelope.
RecvPopNewest(q) == [env |-> q[Len(q)], rest |-> SubSeq(q, 1, Len(q) - 1)]

\* self.rx.recv(): the oldest envelope of the channel.
RecvPop(q) == [env |-> Head(q), rest |-> Tail(q)]

MailboxRecv ==
    /\ actor = "idle"
    /\ ~closed
    /\ queue # << >>
    /\ cur' = RecvPop(queue).env
    /\ queue' = RecvPop(queue).rest
    /\ actor' = "holding"
    /\ UNCHANGED <<variant, puppet, running, tasks, slot, closed, sent>>
    /\ UNCHANGED callVars
    /\ UNCHANGED histVars
    /\ UNCHANGED otherVars

\* (mutant) recv that reports the end as soon as no sender is left.
RecvIsNoneOnClose == senders = {}

\* self.rx.recv() is None: every Postman is dropped and nothing is queued.
RecvIsNone == senders = {} /\ queue = << >>

\* recv returns None to the mailbox loop, which ends.
MailboxRecvNone ==
    /\ actor = "idle"
    /\ ~closed
    /\ RecvIsNone
    /\ actor' = "ended"
    /\ UNCHANGED <<variant, puppet, cur, running, tasks, slot, closed, queue,
                   sent>>
    /\ UNCHANGED callVars
    /\ UNCHANGED histVars
    /\ UNCHANGED otherVars

\* A producer that is in no call drops its Address, and its Postman with it.
PostmanDrop(p) ==
    /\ p \in senders
    /\ ProducerFree(p)
    /\ senders' = senders \ {p}
    /\ atClose' = IF senders = {p} THEN QueueMsgs ELSE atClose
    /\ UNCHANGED <<queue, closed, slot, sent, ctlVars, statusVars>>
    /\ UNCHANGED callVars
    /\ UNCHANGED actorVars
    /\ UNCHANGED histVars

\* ------------------------------------------------------------ Packet
\* (mutants) every variant handled in place; every variant spawned.
RunsInPlaceAlways(v) == TRUE
RunsInPlaceNever(v) == FALSE

\* match execution_variant: Sequential awaits the handler on the caller's
\* own task, with the actor itself; the other variants spawn it on a clone.
RunsInPlace(v) == v = "Sequential"

\* (mutant) reply_address.send(..).unwrap()
OnReplySendErrorUnwrap == "panic"

\* reply_address.send(..).unwrap_or_else(|_| println!(..))
OnReplySendError == "swallow"

\* (mutant) a reply that is never put into the slot.
ReplyToDropped(sl, r, v) == sl

\* (mutant) a reply put into the slot of another ask that is in flight.
ReplyToOther(sl, r, v) ==
    IF r = NoneV THEN sl
    ELSE LET others == {x \in Msgs \ {r} : sl[x].tx = "live"}
             o == IF others = {} THEN r ELSE CHOOSE x \in others : TRUE
         IN [sl EXCEPT ![o] = OneshotSend(sl[o], v)]

ReplyFails(sl, r) == r # NoneV /\ ~OneshotSendOk(sl[r])
ReplyTo(sl, r, v) ==
    IF r = NoneV THEN sl ELSE [sl EXCEPT ![r] = OneshotSend(sl[r], v)]
\* deliveries, with the value the send put into slot r counted.
Deliver(sl, r) ==
    IF r # NoneV /\ OneshotSendOk(sl[r])
    THEN [deliveries EXCEPT ![r] = @ + 1] ELSE deliveries
Swallow(sl, r, m) ==
    IF ReplyFails(sl, r) THEN swallowed \cup {m} ELSE swallowed
Panics(sl, r) == ReplyFails(sl, r) /\ OnReplySendError = "panic"

\* handle_message up to the handler: take the message and the reply slot,
\* then start the handler in place or spawn it on a clone of the actor.
HandleMessage ==
    /\ actor = "holding"
    /\ cur.message # NoneV
    /\ handled' = Append(handled, cur.message)
    /\ IF RunsInPlace(variant)
       THEN /\ running' = [msg |-> cur.message,
                           reply_address |-> cur.reply_address]
            /\ cur' = NoEnvelope
            /\ actor' = "handling"
            /\ UNCHANGED <<tasks, hmRet>>
       ELSE /\ tasks' = tasks \cup {[msg |-> cur.message,
                                     reply_address |-> cur.reply_address,
                                     puppet |-> puppet]}
            /\ hmRet' = [hmRet EXCEPT ![cur.message] = "Ok"]
            /\ cur' = NoEnvelope
            /\ actor' = "idle"
            /\ UNCHANGED running
    /\ UNCHANGED <<variant, puppet, slot, queue, sent, closed, completed,
                   rejected, discarded, swallowed, deliveries>>
    /\ UNCHANGED callVars
    /\ UNCHANGED otherVars

\* The handler awaited in place returns: its response is sent to the reply
\* slot, if any, and handle_message returns Ok(()) to the loop, which goes
\* on at position pos.
HandlerReturnsTo(pos) ==
    /\ actor = "handling"
    /\ LET m == running.msg
           r == running.reply_address
       IN /\ puppet' = Handle(puppet, m)
          /\ slot' = ReplyTo(slot, r, OkVal(Response(puppet, m)))
          /\ swallowed' = Swallow(slot, r, m)
          /\ deliveries' = Deliver(slot, r)
          /\ completed' = Append(completed, m)
          /\ IF Panics(slot, r)
             THEN actor' = "panicked" /\ hmRet' = hmRet
             ELSE actor' = pos /\ hmRet' = [hmRet EXCEPT ![m] = "Ok"]
    /\ running' = NoRun
    /\ UNCHANGED <<variant, cur, tasks, queue, sent, closed, handled,
                   rejected, discarded>>
    /\ UNCHANGED callVars
    /\ UNCHANGED otherVars

\* The mailbox loop calls handle_message once and drops the envelope.
HandlerReturns == HandlerReturnsTo("idle")

\* A spawned handler returns: it worked on its own clone.
TaskCompletes(t) ==
    /\ t \in tasks
    /\ tasks' = tasks \ {t}
    /\ slot' = ReplyTo(slot, t.reply_address,
                       OkVal(Response(t.puppet, t.msg)))
    /\ swallowed' = Swallow(slot, t.reply_address, t.msg)
    /\ deliveries' = Deliver(slot, t.reply_address)
    /\ completed' = Append(completed, t.msg)
    /\ UNCHANGED <<variant, puppet, actor, cur, running, queue, sent, closed,
                   handled, rejected, discarded, hmRet>>
    /\ UNCHANGED callVars
    /\ UNCHANGED otherVars

\* (mutant) reply_error that reports a fixed error of its own.
ErrReplyFixed(err) == ErrVal("MessageResponseReceiveError")

\* Err(err), the value reply_error sends.
ErrReply(err) == ErrVal(err)

\* reply_error(err): the error goes to the reply slot, if any; the message
\* is dropped with the envelope, unhandled.
ReplyError(err) ==
    /\ actor = "holding"
    /\ slot' = ReplyTo(slot, cur.reply_address, ErrReply(err))
    /\ swallowed' = Swallow(slot, cur.reply_address, cur.message)
    /\ deliveries' = Deliver(slot, cur.reply_address)
    /\ rejected' = rejected \cup {cur.message}
    /\ hmRet' = [hmRet EXCEPT ![cur.message] = "Ok"]
    /\ cur' = NoEnvelope
    /\ actor' = IF Panics(slot, cur.reply_address) THEN "panicked" ELSE "idle"
    /\ UNCHANGED <<variant, puppet, running, tasks, queue, sent, closed,
                   handled, completed, discarded>>
    /\ UNCHANGED callVars
    /\ UNCHANGED otherVars

\* ------------------------------------------------------------ Envelope
\* A caller that keeps the envelope it received and calls handle_message
\* and reply_error on it any number of times, in any order, before it
\* drops it.

\* (mutant) Option read without being emptied.
PeekOption(x) == [val |-> x, left |-> x]

\* Option::take(): the value, and None left behind.
TakeOption(x) == [val |-> x, left |-> NoneV]

\* The message the envelope in hand was made for: the last one popped.
HeldId == sent[Len(sent) - Len(queue)].message

\* self.message.take().unwrap() on None: the calling task panics, and what
\* it owns is dropped with it, the mailbox and its queue included.
UnwrapPanics ==
    /\ actor' = "panicked"
    /\ closed' = TRUE
    /\ queue' = << >>
    /\ discarded' = discarded \cup {queue[i].message : i \in 1..Len(queue)}
    /\ slot' = [m \in Msgs |->
                   IF \E i \in 1..Len(queue) : queue[i].reply_address = m
                   THEN DropSender(slot[m]) ELSE slot[m]]
    /\ UNCHANGED <<cur, running, tasks, handled, hmRet>>

EnvHandleMessage ==
    /\ actor = "holding"
    /\ LET msg == TakeOption(cur.message)
           reply_address == TakeOption(cur.reply_address)
       IN IF msg.val = NoneV
          THEN UnwrapPanics
          ELSE /\ handled' = Append(handled, msg.val)
               /\ cur' = [message |-> msg.left,
                          reply_address |-> reply_address.left]
               /\ IF RunsInPlace(variant)
                  THEN /\ running' = [msg |-> msg.val,
                                      reply_address |-> reply_address.val]
                       /\ actor' = "handling"
                       /\ UNCHANGED <<tasks, hmRet>>
                  ELSE /\ tasks' = tasks \cup
                                     {[msg |-> msg.val,
                                       reply_address |-> reply_address.val,
                                       puppet |-> puppet]}
                       /\ hmRet' = [hmRet EXCEPT ![msg.val] = "Ok"]
                       /\ UNCHANGED <<running, actor>>
               /\ UNCHANGED <<queue, closed, slot, discarded>>
    /\ UNCHANGED <<variant, puppet, sent, completed, rejected, swallowed,
                   deliveries>>
    /\ UNCHANGED callVars
    /\ UNCHANGED otherVars

\* The handler of a kept envelope returns: the envelope is still in hand.
EnvHandlerReturns == HandlerReturnsTo("holding")

EnvReplyError(err) ==
    /\ actor = "holding"
    /\ LET reply_address == TakeOption(cur.reply_address)
       IN /\ slot' = ReplyTo(slot, reply_address.val, ErrReply(err))
          /\ swallowed' = Swallow(slot, reply_address.val, HeldId)
          /\ deliveries' = Deliver(slot, reply_address.val)
          /\ cur' = [cur EXCEPT !.reply_address = reply_address.left]
    /\ rejected' = rejected \cup {HeldId}
    /\ UNCHANGED <<variant, puppet, actor, running, tasks, queue, sent,
                   closed, handled, completed, discarded, hmRet>>
    /\ UNCHANGED callVars
    /\ UNCHANGED otherVars

\* The envelope is dropped with whatever it still holds.
EnvDrop ==
    /\ actor = "holding"
    /\ actor' = "idle"
    /\ cur' = NoEnvelope
    /\ slot' = IF cur.reply_address = NoneV THEN slot
               ELSE [slot EXCEPT ![cur.reply_address] = DropSender(@)]
    /\ discarded' = IF cur.message = NoneV THEN discarded
                    ELSE discarded \cup {cur.message}
    /\ UNCHANGED <<variant, puppet, running, tasks, queue, sent, closed,
                   handled, completed, rejected, swallowed, hmRet,
                   deliveries>>
    /\ UNCHANGED callVars
    /\ UNCHANGED otherVars

\* ------------------------------------------------------------ control plane
\* ServicePacket { cmd, reply_address }: the command and its reply sender,
\* both named by the command's number.
ServicePacket(c) == [cmd |-> c, reply_address |-> c]

\* The rejection a lifecycle transition answers with.
Rejections == {"Rejected"}

\* (mutant) control packets that count against the room of the data plane.
ServiceTxOutcomeShared ==
    IF cclosed THEN "closed"
    ELSE IF Len(cqueue) < ServiceCapacity /\ Len(queue) < Capacity
         THEN "pushed" ELSE "full"

\* self.tx.send(packet).await on the control channel.
ServiceTxOutcome ==
    IF cclosed THEN "closed"
    ELSE IF Len(cqueue) < ServiceCapacity THEN "pushed" ELSE "full"

ServiceTxSend(c, sl) ==
    CASE ServiceTxOutcome = "closed" ->
            /\ cst' = [cst EXCEPT ![c] = "returned"]
            /\ cres' = [cres EXCEPT ![c] = ErrVal(SendErrorKind)]
            /\ cslot' = [sl EXCEPT ![c] = DropReceiver(DropSender(sl[c]))]
            /\ UNCHANGED cqueue
      [] ServiceTxOutcome = "pushed" ->
            /\ cqueue' = Append(cqueue, ServicePacket(c))
            /\ cst' = [cst EXCEPT ![c] = "awaiting"]
            /\ cslot' = sl
            /\ UNCHANGED cres
      [] ServiceTxOutcome = "full" ->
            /\ cst' = [cst EXCEPT ![c] = "blocked"]
            /\ cslot' = sl
            /\ UNCHANGED <<cqueue, cres>>

\* Commands are numbered in the order in which they are sent.
NextCmd(c) == cst[c] = "unissued" /\ \A d \in Cmds : d < c => cst[d] # "unissued"

\* ServicePostman::send_and_await_response up to the push.
ServiceSend(c) ==
    /\ NextCmd(c)
    /\ ServiceTxSend(c, [cslot EXCEPT ![c] = OneshotChannel])
    /\ UNCHANGED <<cclosed, cactor, ccur, acks>>
    /\ UNCHANGED <<dataVars, statusVars>>

ServiceSendResume(c) ==
    /\ cst[c] = "blocked"
    /\ ServiceTxOutcome # "full"
    /\ ServiceTxSend(c, cslot)
    /\ UNCHANGED <<cclosed, cactor, ccur, acks>>
    /\ UNCHANGED <<dataVars, statusVars>>

\* match res_rx.await of send_and_await_response.
ServiceAwait(c) ==
    /\ cst[c] = "awaiting"
    /\ OneshotReady(cslot[c])
    /\ cres' = [cres EXCEPT ![c] = AwaitResult(OneshotRecv(cslot[c]))]
    /\ cst' = [cst EXCEPT ![c] = "returned"]
    /\ cslot' = [cslot EXCEPT ![c] = DropReceiver(cslot[c])]
    /\ UNCHANGED <<cqueue, cclosed, cactor, ccur, acks>>
    /\ UNCHANGED <<dataVars, statusVars>>

\* ServiceMailbox::recv
ServiceRecv ==
    /\ cactor = "idle"
    /\ ~cclosed
    /\ cqueue # << >>
    /\ ccur' = Head(cqueue).reply_address
    /\ cqueue' = Tail(cqueue)
    /\ cactor' = "holding"
    /\ UNCHANGED <<cclosed, cslot, cst, cres, acks>>
    /\ UNCHANGED <<dataVars, statusVars>>

\* (mutant) a command consumed without an answer, its sender kept.
ServiceReplyLost(sl, c, v) == sl

\* packet.reply_address.send(v)
ServiceReply(sl, c, v) == [sl EXCEPT ![c] = OneshotSend(sl[c], v)]

\* The consumer of the control channel answers the command it received:
\* Ok(()) when the transition is accepted, Err when it is rejected.
ServiceAck(v) ==
    /\ cactor = "holding"
    /\ cslot' = ServiceReply(cslot, ccur, v)
    /\ acks' = IF OneshotSendOk(cslot[ccur])
               THEN [acks EXCEPT ![ccur] = @ + 1] ELSE acks
    /\ ccur' = NoneV
    /\ cactor' = "idle"
    /\ UNCHANGED <<cqueue, cclosed, cst, cres>>
    /\ UNCHANGED <<dataVars, statusVars>>

\* The consumer's task ends: the ServiceMailbox is dropped with what is
\* queued, and a packet still in hand with it.
ServiceMailboxDrop ==
    /\ cactor \in {"idle", "holding"}
    /\ ~cclosed
    /\ cclosed' = TRUE
    /\ cactor' = "exited"
    /\ cslot' = [c \in Cmds |->
                    IF c = ccur \/ \E i \in 1..Len(cqueue) :
                                      cqueue[i].reply_address = c
                    THEN DropSender(cslot[c]) ELSE cslot[c]]
    /\ cqueue' = << >>
    /\ ccur' = NoneV
    /\ UNCHANGED <<cst, cres, acks>>
    /\ UNCHANGED <<dataVars, statusVars>>

\* ------------------------------------------------------------ status watch
\* Address::get_status: *self.status_rx.borrow()
GetStatus == wval

\* The version the Address's own receiver has marked seen: it was made with
\* the channel and never calls changed().
AddressSeen == 0

\* The control-plane consumer writes the status of a transition.
StatusWrite(v) ==
    /\ wsrc
    /\ wver < MaxWrites
    /\ wval' = v
    /\ wver' = wver + 1
    /\ writes' = Append(writes, v)
    /\ UNCHANGED <<wsrc, cbpc, cbver, cbreg, cbgot>>
    /\ UNCHANGED <<dataVars, ctlVars>>

\* The actor's task ends and the watch Sender is dropped with it.
SourceDropped ==
    /\ wsrc
    /\ wsrc' = FALSE
    /\ UNCHANGED <<wval, wver, writes, cbpc, cbver, cbreg, cbgot>>
    /\ UNCHANGED <<dataVars, ctlVars>>

\* Address::on_status_change: the receiver is cloned, with the version the
\* Address's receiver has seen, and the task is spawned.
OnStatusChange ==
    /\ cbpc = "none"
    /\ cbpc' = "waiting"
    /\ cbver' = AddressSeen
    /\ cbreg' = wver
    /\ UNCHANGED <<wval, wver, wsrc, writes, cbgot>>
    /\ UNCHANGED <<dataVars, ctlVars>>

\* (mutant) changed() that reports a dropped Sender before an unseen value.
ChangedOutcomeClosedFirst ==
    IF ~wsrc THEN "Err" ELSE IF cbver # wver THEN "Ok" ELSE "Pending"

\* rx.changed().await: Ok(()) when the value is newer than the one marked
\* seen, Err when it is not and the Sender is gone, pending otherwise.
ChangedOutcome ==
    IF cbver # wver THEN "Ok" ELSE IF ~wsrc THEN "Err" ELSE "Pending"

\* changed() returns Ok(()) and marks the current version seen.
CallbackWakes ==
    /\ cbpc = "waiting"
    /\ ChangedOutcome = "Ok"
    /\ cbver' = wver
    /\ cbpc' = "woken"
    /\ UNCHANGED <<wval, wver, wsrc, writes, cbreg, cbgot>>
    /\ UNCHANGED <<dataVars, ctlVars>>

\* f(*rx.borrow()): the callback gets the value current at the borrow.
CallbackInvoked ==
    /\ cbpc = "woken"
    /\ cbgot' = Append(cbgot, [value |-> wval, ver |-> wver])
    /\ cbpc' = "waiting"
    /\ UNCHANGED <<wval, wver, wsrc, writes, cbver, cbreg>>
    /\ UNCHANGED <<dataVars, ctlVars>>

\* changed() returns Err: the while loop and the task end.
CallbackEnds ==
    /\ cbpc = "waiting"
    /\ ChangedOutcome = "Err"
    /\ cbpc' = "ended"
    /\ UNCHANGED <<wval, wver, wsrc, writes, cbver, cbreg, cbgot>>
    /\ UNCHANGED <<dataVars, ctlVars>>

\* ------------------------------------------------------------ the actor's task
QueuedMsgs == {queue[i].message : i \in 1..Len(queue)}
QueuedReplies == {queue[i].reply_address : i \in 1..Len(queue)} \ {NoneV}

\* The mailbox loop ends and the Mailbox is dropped with what it still holds.
ActorExits ==
    /\ actor = "idle"
    /\ ~closed
    /\ actor' = "exited"
    /\ closed' = TRUE
    /\ queue' = << >>
    /\ discarded' = discarded \cup QueuedMsgs
    /\ slot' = [m \in Msgs |-> IF m \in QueuedReplies
                               THEN DropSender(slot[m]) ELSE slot[m]]
    /\ UNCHANGED <<variant, puppet, cur, running, tasks, sent, handled,
                   completed, rejected, swallowed, hmRet, deliveries>>
    /\ UNCHANGED callVars
    /\ UNCHANGED otherVars

\* The task of the actor dies with an envelope in hand, or inside the
\* handler it awaits in place: the envelope or the handler's locals are
\* dropped, the reply sender among them, and the mailbox goes with the task.
ActorDies ==
    /\ actor \in {"holding", "handling"}
    /\ ~closed
    /\ LET m == IF actor = "holding" THEN cur.message ELSE running.msg
           r == IF actor = "holding" THEN cur.reply_address
                ELSE running.reply_address
       IN /\ discarded' = discarded \cup {m} \cup QueuedMsgs
          /\ slot' = [x \in Msgs |-> IF x \in QueuedReplies \cup {r}
                                     THEN DropSender(slot[x]) ELSE slot[x]]
    /\ actor' = "dead"
    /\ cur' = NoEnvelope
    /\ running' = NoRun
    /\ closed' = TRUE
    /\ queue' = << >>
    /\ UNCHANGED <<variant, puppet, tasks, sent, handled, completed,
                   rejected, swallowed, hmRet, deliveries>>
    /\ UNCHANGED callVars
    /\ UNCHANGED otherVars

\* ------------------------------------------------------------ cleanup
\* Shutdown: the mailbox loop is over and the task calls mailbox.cleanup().
CleanupStart ==
    /\ actor = "idle"
    /\ ~closed
    /\ actor' = "cleanup"
    /\ UNCHANGED <<variant, puppet, cur, running, tasks, queue, closed, slot,
                   sent>>
    /\ UNCHANGED callVars
    /\ UNCHANGED histVars
    /\ UNCHANGED otherVars

\* while let Ok(Some(_)) = timeout(duration, self.recv()).await {}: the loop
\* goes on exactly when an envelope arrived within the duration.
DrainGoesOn(got) == got = "Some"

\* One turn of the loop with an envelope in the channel: recv returns it at
\* once, it is dropped unhandled, its reply sender with it.
CleanupRecv ==
    /\ actor = "cleanup"
    /\ queue # << >>
    /\ LET env == RecvPop(queue).env
       IN /\ discarded' = discarded \cup {env.message}
          /\ slot' = IF env.reply_address = NoneV THEN slot
                     ELSE [slot EXCEPT ![env.reply_address] = DropSender(@)]
    /\ queue' = RecvPop(queue).rest
    /\ actor' = IF DrainGoesOn("Some") THEN "cleanup" ELSE "cleaned"
    /\ UNCHANGED <<variant, puppet, cur, running, tasks, closed, sent, handled,
                   completed, rejected, swallowed, hmRet, deliveries>>
    /\ UNCHANGED callVars
    /\ UNCHANGED otherVars

\* One turn with an empty channel and a Postman alive: recv is pending, the
\* 100 ms run out, timeout returns Err(Elapsed) and cleanup returns.
CleanupTimeout ==
    /\ actor = "cleanup"
    /\ queue = << >>
    /\ senders # {}
    /\ actor' = IF DrainGoesOn("Elapsed") THEN "cleanup" ELSE "cleaned"
    /\ UNCHANGED <<variant, puppet, cur, running, tasks, queue, closed, slot,
                   sent>>
    /\ UNCHANGED callVars
    /\ UNCHANGED histVars
    /\ UNCHANGED otherVars

\* One turn with an empty channel and no Postman left: recv returns None
\* and cleanup returns.
CleanupNone ==
    /\ actor = "cleanup"
    /\ RecvIsNone
    /\ actor' = IF DrainGoesOn("None") THEN "cleanup" ELSE "cleaned"
    /\ UNCHANGED <<variant, puppet, cur, running, tasks, queue, closed, slot,
                   sent>>
    /\ UNCHANGED callVars
    /\ UNCHANGED histVars
    /\ UNCHANGED otherVars

\* After cleanup the task ends and the Mailbox is dropped with whatever was
\* sent since.
CleanedExit ==
    /\ actor = "cleaned"
    /\ actor' = "exited"
    /\ closed' = TRUE
    /\ queue' = << >>
    /\ discarded' = discarded \cup QueuedMsgs
    /\ slot' = [m \in Msgs |-> IF m \in QueuedReplies
                               THEN DropSender(slot[m]) ELSE slot[m]]
    /\ UNCHANGED <<variant, puppet, cur, running, tasks, sent, handled,
                   completed, rejected, swallowed, hmRet, deliveries>>
    /\ UNCHANGED callVars
    /\ UNCHANGED otherVars

\* The payload of a producer that sends the same message again and again.
Extra == MaxMsgs + 1

\* A producer that holds its Postman and is in no other call pushes one
\* more fire-and-forget message while the drain is running.
KeepsSending ==
    /\ actor = "cleanup"
    /\ \E p \in senders : ProducerFree(p)
    /\ TxSendOutcome = "pushed"
    /\ queue' = Append(queue, WithoutReply(Extra))
    /\ UNCHANGED <<closed, slot, sent>>
    /\ UNCHANGED callVars
    /\ UNCHANGED actorVars
    /\ UNCHANGED histVars
    /\ UNCHANGED otherVars

Next ==
    \/ \E p \in Producers : AddressSend(p)
    \/ \E p \in Producers : AddressAsk(p)
    \/ \E m \in Msgs : SendResume(m)
    \/ \E m \in Msgs : AwaitResponse(m)
    \/ \E m \in Msgs : Abandon(m)
    \/ MailboxRecv
    \/ HandleMessage
    \/ HandlerReturns
    \/ \E t \in tasks : TaskCompletes(t)
    \/ \E e \in RoutingErrors : ReplyError(e)
    \/ ActorExits

Spec == Init /\ [][Next]_vars

\* The same system with callers that all wait for their replies.
NextWaiting ==
    \/ \E p \in Producers : AddressSend(p)
    \/ \E p \in Producers : AddressAsk(p)
    \/ \E m \in Msgs : SendResume(m)
    \/ \E m \in Msgs : AwaitResponse(m)
    \/ MailboxRecv
    \/ HandleMessage
    \/ HandlerReturns
    \/ \E t \in tasks : TaskCompletes(t)
    \/ \E e \in RoutingErrors : ReplyError(e)
    \/ ActorExits

SpecWaiting == Init /\ [][NextWaiting]_vars

\* The same system with asks that carry a duration.
NextTimed ==
    \/ Next
    \/ \E p \in Producers : AddressAskWithTimeout(p)
    \/ \E m \in Msgs : DurationElapses(m)

SpecTimed == Init /\ [][NextTimed]_vars

\* The scheduling the runtime gives: a task that can take its next step
\* takes it. The mailbox loop goes on with the envelope it holds, a handler
\* that was started returns, a caller whose reply is ready or whose channel
\* has room is resumed. Nothing obliges a producer to issue a call, a caller
\* to abandon one, or the actor's task to end.
Fairness ==
    /\ WF_vars(MailboxRecv)
    /\ WF_vars(HandleMessage \/ \E e \in RoutingErrors : ReplyError(e))
    /\ WF_vars(HandlerReturns)
    /\ \A m \in Msgs : WF_vars(\E t \in tasks : t.msg = m /\ TaskCompletes(t))
    /\ \A m \in Msgs : WF_vars(AwaitResponse(m))
    /\ \A m \in Msgs : WF_vars(SendResume(m))

FairSpec == Spec /\ Fairness

\* The system whose producers drop their handles, and whose loop runs until
\* recv returns None.
NextDrop ==
    \/ \E p \in Producers : AddressSend(p)
    \/ \E p \in Producers : AddressAsk(p)
    \/ \E m \in Msgs : SendResume(m)
    \/ \E m \in Msgs : AwaitResponse(m)
    \/ MailboxRecv
    \/ HandleMessage
    \/ HandlerReturns
    \/ \E t \in tasks : TaskCompletes(t)
    \/ \E p \in Producers : PostmanDrop(p)
    \/ MailboxRecvNone

SpecDrop == Init /\ [][NextDrop]_vars

\* The system that shuts down: the actor's task may die, or end its loop
\* and drain the mailbox with cleanup before it drops it, while producers
\* go on asking and sending or drop their handles.
NextShutdown ==
    \/ \E p \in Producers : AddressAsk(p)
    \/ \E m \in Msgs : SendResume(m)
    \/ \E m \in Msgs : AwaitResponse(m)
    \/ MailboxRecv
    \/ HandleMessage
    \/ HandlerReturns
    \/ \E t \in tasks : TaskCompletes(t)
    \/ \E p \in Producers : PostmanDrop(p)
    \/ ActorExits
    \/ ActorDies
    \/ CleanupStart
    \/ CleanupRecv
    \/ CleanupTimeout
    \/ CleanupNone
    \/ CleanedExit
    \/ KeepsSending

SpecShutdown == Init /\ [][NextShutdown]_vars

\* The task that runs cleanup takes its next turn of the loop: an envelope
\* that is there is received; the timer of a turn runs out if no envelope
\* arrives while it runs. Nothing obliges a producer to stop sending.
FairnessShutdown ==
    /\ Fairness
    /\ WF_vars(CleanupRecv)
    /\ WF_vars(CleanupTimeout)
    /\ WF_vars(CleanupNone)
    /\ WF_vars(CleanedExit)

FairSpecShutdown == SpecShutdown /\ FairnessShutdown

\* The lifecycle status broadcast and one registered callback.
NextStatus ==
    \/ \E v \in Statuses : StatusWrite(v)
    \/ SourceDropped
    \/ OnStatusChange
    \/ CallbackWakes
    \/ CallbackInvoked
    \/ CallbackEnds

SpecStatus == Init /\ [][NextStatus]_vars

\* The task spawned by on_status_change is a task of the runtime: it takes
\* its next step when it can. Nothing obliges the status to be written, the
\* callback to be registered or the source to be dropped.
FairnessStatus ==
    /\ WF_vars(CallbackWakes)
    /\ WF_vars(CallbackInvoked)
    /\ WF_vars(CallbackEnds)

FairSpecStatus == SpecStatus /\ FairnessStatus

\* The control plane by itself.
NextService ==
    \/ \E c \in Cmds : ServiceSend(c)
    \/ \E c \in Cmds : ServiceSendResume(c)
    \/ \E c \in Cmds : ServiceAwait(c)
    \/ ServiceRecv
    \/ ServiceAck(OkUnit)
    \/ \E e \in Rejections : ServiceAck(ErrVal(e))
    \/ ServiceMailboxDrop

SpecService == Init /\ [][NextService]_vars

\* The control plane next to a data plane that one producer fills.
NextControl ==
    \/ AddressSend("p1")
    \/ \E m \in Msgs : SendResume(m)
    \/ MailboxRecv
    \/ HandleMessage
    \/ HandlerReturns
    \/ \E t \in tasks : TaskCompletes(t)
    \/ \E c \in Cmds : ServiceSend(c)
    \/ \E c \in Cmds : ServiceSendResume(c)
    \/ \E c \in Cmds : ServiceAwait(c)
    \/ ServiceRecv
    \/ ServiceAck(OkUnit)
    \/ \E e \in Rejections : ServiceAck(ErrVal(e))
    \/ ServiceMailboxDrop

SpecControl == Init /\ [][NextControl]_vars

\* The caller of a command and the consumer of the control channel are
\* tasks of the runtime: each takes its next step when it can. Nothing
\* obliges the consumer's task to end.
FairnessControl ==
    /\ \A c \in Cmds : WF_vars(ServiceSendResume(c))
    /\ \A c \in Cmds : WF_vars(ServiceAwait(c))
    /\ WF_vars(ServiceRecv)
    /\ WF_vars(ServiceAck(OkUnit) \/ \E e \in Rejections : ServiceAck(ErrVal(e)))

FairSpecService == SpecService /\ FairnessControl

\* The system whose consumer calls the two methods of an envelope freely;
\* one producer feeds it.
NextEnvelope ==
    \/ AddressSend("p1")
    \/ AddressAsk("p1")
    \/ \E m \in Msgs : SendResume(m)
    \/ \E m \in Msgs : AwaitResponse(m)
    \/ MailboxRecv
    \/ EnvHandleMessage
    \/ EnvHandlerReturns
    \/ \E t \in tasks : TaskCompletes(t)
    \/ \E e \in RoutingErrors : EnvReplyError(e)
    \/ EnvDrop

SpecEnvelope == Init /\ [][NextEnvelope]_vars

\* ------------------------------------------------------------ helpers
Range(s) == {s[i] : i \in 1..Len(s)}
NoDup(s) == \A i, j \in 1..Len(s) : i # j => s[i] # s[j]
Pos(s, x) == CHOOSE i \in 1..Len(s) : s[i] = x
SentMsgs == [i \in 1..Len(sent) |-> sent[i].message]
\* Messages received into the channel and not yet given to a handler.
PendingMsgs ==
    (IF actor = "holding" THEN <<cur.message>> ELSE << >>) \o QueueMsgs
\* The messages sent, in send order, less those the loop answered with
\* reply_error or dropped with the mailbox.
KeptMsgs == SelectSeq(SentMsgs, LAMBDA m : m \notin rejected \cup discarded)
\* The actor state a Sequential handler of m was invoked on.
StateAtDispatch(m) == SubSeq(handled, 1, Pos(handled, m) - 1)
IsAsk(m) == op[m] \in {"ask", "ask_with_timeout"}

\* ------------------------------------------------------------ claims

\* C1: under the Sequential variant the handler is invoked on exactly the
\* messages sent (those the loop gave to handle_message), each once, in the
\* order in which they entered the channel: what was handled so far followed
\* by what is still pending is the sequence sent.
C1_SequentialFifo ==
    variant = "Sequential" =>
        /\ NoDup(handled)
        /\ handled \o PendingMsgs = KeptMsgs
        /\ (rejected = {} /\ discarded = {} /\ PendingMsgs = << >>
              => handled = SentMsgs)

\* C1 witness: three messages sent and all three handled, in send order.
C1_Witness ==
    /\ variant = "Sequential"
    /\ Len(handled) = 3
    /\ handled = SentMsgs
    /\ rejected = {} /\ discarded = {}

\* C2: an ask handled by a Sequential actor returns Ok(r), r the response
\* the handler computes for m on the actor state at its dispatch; until the
\* caller has picked it up, that Ok(r) is the value in its reply slot.
C2_AskReturnsResponse ==
    variant = "Sequential" =>
        \A m \in Range(completed) :
            IsAsk(m) =>
                /\ callst[m] = "returned" =>
                       result[m] = OkVal(Response(StateAtDispatch(m), m))
                /\ callst[m] = "awaiting" =>
                       slot[m].val = OkVal(Response(StateAtDispatch(m), m))
                /\ callst[m] \in {"returned", "awaiting", "abandoned"}

\* C2 witness: an ask that returned the response computed on a state that an
\* earlier message had changed.
C2_Witness ==
    /\ variant = "Sequential"
    /\ \E m \in Msgs : /\ op[m] = "ask"
                        /\ callst[m] = "returned"
                        /\ result[m].kind = "Ok"
                        /\ result[m].msg = m
                        /\ result[m].seen >= 1

\* C3 (as claimed): an ask issued after the mailbox was dropped returns
\* MessageResponseReceiveError.
C3_Original ==
    \A m \in issuedClosed :
        op[m] = "ask" =>
            /\ callst[m] = "returned"
            /\ result[m] = ErrVal("MessageResponseReceiveError")

\* C3 (amended): an ask issued after the mailbox was dropped has returned,
\* without suspending, with MessageSendError; nothing was enqueued for it.
C3_AskAfterExitFails ==
    \A m \in issuedClosed :
        op[m] = "ask" =>
            /\ callst[m] = "returned"
            /\ result[m] = ErrVal("MessageSendError")
            /\ m \notin Range(SentMsgs)

\* C3 witness: such an ask was issued.
C3_Witness ==
    \E m \in issuedClosed : op[m] = "ask" /\ actor = "exited"

\* C4 (as claimed): an ask_with_timeout whose duration ran out before the
\* handler of its message replied returns a timeout error.
C4_TimeoutReturned ==
    \A m \in expired :
        (m \in Range(handled) /\ callst[m] = "returned")
            => result[m] = ErrVal("Timeout")

\* C5: under Concurrent and Parallel every handler works on a clone taken at
\* dispatch, so the canonical state stays what it was and every response is
\* computed on it; under Sequential the state is the log of the handlers that
\* returned, and each response tells how many went before.
C5_CloneIsolation ==
    /\ variant # "Sequential" =>
          /\ puppet = InitialPuppet
          /\ \A t \in tasks : t.puppet = InitialPuppet
          /\ \A m \in Msgs : slot[m].val.kind = "Ok" =>
                 slot[m].val = OkVal(Response(InitialPuppet, m))
    /\ variant = "Sequential" =>
          /\ puppet = completed
          /\ \A m \in Msgs : slot[m].val.kind = "Ok" =>
                 slot[m].val.seen = Pos(handled, m) - 1

\* C5 witness: two handlers have completed on their clones.
C5_Witness ==
    /\ variant = "Parallel"
    /\ Len(completed) >= 2
    /\ \E m \in Msgs : result[m].kind = "Ok" /\ result[m].msg = m

\* Under Concurrent the handlers are spawned in send order, one per message;
\* none is lost (each is in flight or has completed, once); and every ask
\* whose handler completed while its caller was still waiting holds or
\* returned exactly the response computed for its own message.
NoCompletionLost ==
    variant = "Concurrent" =>
        /\ handled \o PendingMsgs = KeptMsgs
        /\ NoDup(handled) /\ NoDup(completed)
        /\ \A m \in Range(handled) :
              (m \in Range(completed)) # (\E t \in tasks : t.msg = m)
        /\ \A t \in tasks : t.msg \in Range(handled)
        /\ \A t, u \in tasks : t.msg = u.msg => t = u
        /\ \A m \in Range(completed) :
              (IsAsk(m) /\ m \notin swallowed) =>
                  /\ callst[m] \in {"awaiting", "returned", "abandoned"}
                  /\ callst[m] = "awaiting" =>
                        slot[m].val = OkVal(Response(InitialPuppet, m))
                  /\ callst[m] = "returned" =>
                        result[m] = OkVal(Response(InitialPuppet, m))

\* An ask whose handler was spawned and whose caller waits for it is
\* answered with its response, unless the caller abandons it.
AskEventuallyAnswered ==
    \A m \in Msgs :
        (variant = "Concurrent" /\ IsAsk(m) /\ m \in Range(handled)
           /\ callst[m] = "awaiting")
        ~> (callst[m] = "abandoned"
            \/ (callst[m] = "returned"
                /\ result[m] = OkVal(Response(InitialPuppet, m))))

\* C6: for the messages enqueued to a Concurrent actor the handler tasks are
\* spawned in send order, complete in any order, and no completion is lost:
\* every ask among them that its caller has not abandoned eventually gets
\* exactly one response, its own.
C6_ConcurrentCompletions == []NoCompletionLost /\ AskEventuallyAnswered

\* C6 witness: the handler spawned second completed first, and both asks
\* got their responses.
C6_Witness ==
    /\ variant = "Concurrent"
    /\ Len(completed) >= 2
    /\ completed[1] = handled[2]
    /\ completed[2] = handled[1]
    /\ \A i \in 1..2 : /\ op[handled[i]] = "ask"
                        /\ callst[handled[i]] = "returned"
                        /\ result[handled[i]].kind = "Ok"

\* C7: under Sequential at most one handler is running, on the mailbox
\* loop's own task; handlers complete in the order they start; and a handler
\* starts only when every earlier one has returned and its reply was sent.
C7_SequentialOneAtATime ==
    variant = "Sequential" =>
        /\ tasks = {}
        /\ Len(handled) - Len(completed) \in {0, 1}
        /\ (Len(handled) - Len(completed) = 1) <=> (actor = "handling")
        /\ completed = SubSeq(handled, 1, Len(completed))
        /\ actor = "handling" => running.msg = handled[Len(handled)]
        /\ \A m \in Range(completed) : IsAsk(m) => slot[m].tx = "used"

\* C7 witness: a handler is running after an earlier one completed, with the
\* next envelope waiting in the channel.
C7_Witness ==
    /\ variant = "Sequential"
    /\ actor = "handling"
    /\ Len(completed) >= 1
    /\ queue # << >>

\* A send creates no reply slot and is suspended or has returned; it
\* returned an error only as MessageSendError, with the mailbox gone and
\* nothing enqueued; it returned Ok(()) only with exactly one envelope
\* enqueued for its message, carrying no reply slot; and a suspended send
\* can go on as soon as the live channel has room.
SendOutcome ==
    \A m \in Msgs :
        op[m] = "send" =>
            /\ slot[m] = NoSlot
            /\ callst[m] \in {"blocked", "returned"}
            /\ callst[m] = "blocked" =>
                  /\ m \notin Range(SentMsgs)
                  /\ (~closed /\ Len(queue) < Capacity) => ENABLED SendResume(m)
            /\ callst[m] = "returned" =>
                  \/ /\ result[m] = ErrVal("MessageSendError")
                     /\ closed
                     /\ m \notin Range(SentMsgs)
                  \/ /\ result[m] = OkUnit
                     /\ Cardinality({i \in 1..Len(sent) : sent[i].message = m}) = 1
                     /\ \A i \in 1..Len(sent) :
                           sent[i].message = m => sent[i].reply_address = NoneV

\* A send suspended on the full channel returns.
SendEventuallyReturns ==
    \A m \in Msgs :
        (op[m] = "send" /\ callst[m] = "blocked") ~> (callst[m] = "returned")

\* C8: send returns MessageSendError only if the mailbox is gone; while the
\* mailbox is alive a send eventually returns Ok(()), having enqueued exactly
\* one envelope that carries no reply slot.
C8_SendFailsOnlyWhenGone == []SendOutcome /\ SendEventuallyReturns

\* C8 witness: one send returned Ok(()) with its envelope enqueued, and a
\* send to the dropped mailbox returned the error.
C8_Witness ==
    /\ \E m \in Msgs : /\ op[m] = "send"
                        /\ result[m] = OkUnit
                        /\ m \in Range(SentMsgs)
    /\ \E m \in Msgs : /\ op[m] = "send"
                        /\ result[m] = ErrVal("MessageSendError")

\* C9: a message answered by reply_error never reaches the handler and
\* leaves no trace in the actor's state; reply_error returned Ok(()); with a
\* reply slot the awaiting caller gets exactly Err(err); without one no slot
\* is touched.
C9_ReplyErrorDelivers ==
    \A m \in rejected :
        /\ m \notin Range(handled)
        /\ m \notin Range(completed)
        /\ m \notin Range(puppet)
        /\ \A t \in tasks : t.msg # m /\ m \notin Range(t.puppet)
        /\ hmRet[m] = "Ok"
        /\ op[m] = "send" => slot[m] = NoSlot
        /\ (IsAsk(m) /\ callst[m] = "awaiting") =>
              slot[m].val.kind = "Err" /\ slot[m].val.err \in RoutingErrors
        /\ (IsAsk(m) /\ callst[m] = "returned") =>
              result[m].kind = "Err" /\ result[m].err \in RoutingErrors

\* C9 witness: an ask returned the error given to reply_error, and a send was
\* rejected too.
C9_Witness ==
    /\ \E m \in rejected : /\ op[m] = "ask"
                            /\ callst[m] = "returned"
                            /\ result[m] = ErrVal("NotRouted")
    /\ \E m \in rejected : op[m] = "send"

\* C10: when the reply of a message could not be delivered because its
\* caller had abandoned the slot, the handler has still run to completion,
\* nothing was delivered, handle_message returned Ok(()) and the mailbox
\* loop did not die: it is back at recv, or already on a later envelope.
C10_AbandonedReplySwallowed ==
    \A m \in swallowed :
        /\ callst[m] = "abandoned"
        /\ m \in Range(completed) \/ m \in rejected
        /\ slot[m].val.kind = "None"
        /\ hmRet[m] = "Ok"
        /\ actor # "panicked"

\* C10 witness: after the swallowed reply of an abandoned ask, a later
\* envelope was dispatched and handled.
C10_Witness ==
    /\ variant = "Sequential"
    /\ \E m \in swallowed :
          /\ m \in Range(completed)
          /\ \E n \in Range(completed) : Pos(completed, n) > Pos(completed, m)

\* The messages producer p has issued.
OwnedBy(p) == {m \in Msgs : owner[m] = p}
\* m1 stands before m2 wherever both occur in s.
Before(s, m1, m2) ==
    (m1 \in Range(s) /\ m2 \in Range(s)) => Pos(s, m1) < Pos(s, m2)

\* C17: the producers send through clones of one Address into one channel:
\* every message that entered the channel is there exactly once, and is in
\* exactly one place of the one mailbox (queued, held by the loop, given to
\* the handler, answered by reply_error, or dropped with the mailbox); every
\* call that went past tx.send without an error has its message there; and
\* the messages of one producer were enqueued and dispatched in the order
\* in which that producer issued them.
C17_ClonesShareMailbox ==
    /\ NoDup(SentMsgs)
    /\ NoDup(PendingMsgs \o handled)
    /\ Range(SentMsgs) =
          Range(PendingMsgs) \cup Range(handled) \cup rejected \cup discarded
    /\ rejected \cap (Range(PendingMsgs) \cup Range(handled)) = {}
    /\ discarded \cap (Range(PendingMsgs) \cup Range(handled) \cup rejected)
          = {}
    /\ \A m \in Msgs :
          (callst[m] \in {"awaiting", "abandoned"} \/ result[m].kind = "Ok")
              => m \in Range(SentMsgs)
    /\ \A p \in Producers : \A m1, m2 \in OwnedBy(p) :
          m1 < m2 => /\ m2 \in Range(SentMsgs) => m1 \in Range(SentMsgs)
                     /\ Before(SentMsgs, m1, m2)
                     /\ Before(handled, m1, m2)

\* C17 witness: p2's message entered the channel between two of p1's, and
\* all three were dispatched in that order.
C17_Witness ==
    /\ Len(handled) = 3
    /\ \E m1, m2, m3 \in Msgs :
          /\ owner[m1] = "p1" /\ owner[m2] = "p2" /\ owner[m3] = "p1"
          /\ SentMsgs = <<m1, m2, m3>>
          /\ handled = <<m1, m2, m3>>
\* A call suspended in tx.send has had no effect: its packet is nowhere in
\* the channel, it has no result, the reply slot of an ask is untouched, and
\* it can go on as soon as the channel has room.
BlockedIsSuspended ==
    \A m \in Msgs : callst[m] = "blocked" =>
        /\ m \notin Range(SentMsgs)
        /\ m \notin QueuedMsgs
        /\ result[m] = NoVal
        /\ IsAsk(m) => slot[m] = OneshotChannel
        /\ (~closed /\ Len(queue) < Capacity) => ENABLED SendResume(m)
\* A call issued on a full channel of a live mailbox is suspended, and the
\* channel is left as it was.
FullIssueSuspends ==
    \A m \in Msgs :
        (callst[m] = "unissued" /\ callst'[m] # "unissued"
            /\ ~closed /\ Len(queue) = Capacity)
        => callst'[m] = "blocked" /\ queue' = queue /\ result'[m] = NoVal
\* A suspended call stays suspended while the channel is full; it ends by
\* enqueuing its own packet behind what is queued, once an envelope was
\* popped, or by the send error once the mailbox is gone.
BlockedUntilRoom ==
    \A m \in Msgs :
        (callst[m] = "blocked" /\ callst'[m] # "blocked") =>
            \/ /\ ~closed
               /\ Len(queue) < Capacity
               /\ queue' = Append(queue, PacketOf(m, op[m]))
               /\ callst'[m] = StateAfterPush(op[m])
            \/ /\ closed
               /\ result'[m] = ErrVal(SendErrorKind)
               /\ queue' = queue

\* C18: the channel never holds more envelopes than its capacity; a send or
\* ask issued while it is full is suspended without enqueuing, failing or
\* losing its message, and leaves the suspension only by enqueuing that
\* message once the consumer has made room (or, once the mailbox is gone,
\* by the send error).
C18_BackPressure ==
    /\ [](Len(queue) <= Capacity /\ BlockedIsSuspended)
    /\ [][FullIssueSuspends /\ BlockedUntilRoom]_vars

\* C18 witness: the channel is full and a call issued on it is suspended.
C18_Witness ==
    /\ Len(queue) = Capacity
    /\ ~closed
    /\ \E m \in Msgs : callst[m] = "blocked" /\ op[m] = "ask"
\* The actor state the handler of m was invoked on: the canonical actor
\* under Sequential, whose state is the log of what was handled before; a
\* clone of the never-written canonical actor under the other variants.
PuppetAtDispatch(m) ==
    IF RunsInPlace(variant) THEN StateAtDispatch(m) ELSE InitialPuppet

\* C20: whatever asks are in flight with it, under every variant and every
\* completion order, an ask is answered with the response its handler
\* computed from its own message: an Ok value in the reply slot of m, and
\* an Ok result returned to the caller of m, is the response to m.
C20_OwnResponse ==
    \A m \in Msgs :
        /\ slot[m].val.kind = "Ok" =>
              /\ m \in Range(completed)
              /\ slot[m].val = OkVal(Response(PuppetAtDispatch(m), m))
        /\ (IsAsk(m) /\ result[m].kind = "Ok") =>
              /\ m \in Range(completed)
              /\ result[m] = OkVal(Response(PuppetAtDispatch(m), m))

\* C20 witness: two callers had asks in flight at once, the handlers
\* completed in the reverse of the dispatch order, and each caller got the
\* response to its own message.
C20_Witness ==
    \E m1, m2 \in Msgs :
        /\ owner[m1] = "p1" /\ owner[m2] = "p2"
        /\ op[m1] = "ask" /\ op[m2] = "ask"
        /\ Before(handled, m1, m2) /\ m1 \in Range(handled)
        /\ m1 \in Range(completed) /\ m2 \in Range(completed)
        /\ Pos(completed, m2) < Pos(completed, m1)
        /\ callst[m1] = "returned" /\ result[m1].kind = "Ok"
        /\ result[m1].msg = m1
        /\ callst[m2] = "returned" /\ result[m2].kind = "Ok"
        /\ result[m2].msg = m2
\* The messages recv has returned so far, in the order it returned them;
\* where reply_error is not used, every envelope received is the one held
\* or was given to handle_message at once.
Received ==
    handled \o (IF actor = "holding" THEN <<cur.message>> ELSE << >>)
IsSuffix(t, s2) ==
    Len(t) <= Len(s2) /\ SubSeq(s2, Len(s2) - Len(t) + 1, Len(s2)) = t

\* C15: recv has returned None only if every Postman was dropped and the
\* queue was empty; while an envelope is queued recv returns it, not None,
\* even with every sender gone; and what was queued when the last Postman
\* was dropped is still returned, in order: after that drop the envelopes
\* received since and those still queued are the ones queued at the drop,
\* and once None was returned every envelope ever sent was received, in
\* send order, the last ones being those.
C15_RecvNoneOnlyAtEnd ==
    /\ actor = "ended" =>
          /\ senders = {}
          /\ queue = << >>
          /\ Received = SentMsgs
          /\ IsSuffix(atClose, Received)
    /\ (actor = "idle" /\ queue # << >>) =>
          ENABLED MailboxRecv /\ ~ENABLED MailboxRecvNone
    /\ (actor = "idle" /\ senders # {}) => ~ENABLED MailboxRecvNone
    /\ senders = {} =>
          /\ IsSuffix(QueueMsgs, atClose)
          /\ IsSuffix(atClose, Received \o QueueMsgs)
          /\ Received \o QueueMsgs = SentMsgs

\* C15 witness: the last Postman was dropped with two envelopes queued, and
\* recv returned both, in order, before it returned None.
C15_Witness ==
    /\ actor = "ended"
    /\ Len(atClose) = 2
    /\ IsSuffix(atClose, handled)
\* A call of handle_message on an envelope whose message is gone starts no
\* handler.
NoSecondRun ==
    (actor = "holding" /\ cur.message = NoneV) =>
        /\ handled' = handled
        /\ running' = running
        /\ tasks' \subseteq tasks

\* C19: whatever calls of handle_message and reply_error are made on an
\* envelope, in whatever order, at most one value is put into its reply
\* slot, its message is taken, and the handler run on it, at most once; a
\* handle_message on an envelope whose message was taken starts no handler
\* (the unwrap of the empty message panics instead).
C19_EnvelopeOnce ==
    /\ [](/\ \A m \in Msgs : /\ deliveries[m] <= 1
                              /\ slot[m].val.kind # "None" => deliveries[m] = 1
          /\ NoDup(handled)
          /\ NoDup(completed)
          /\ \A t \in tasks : t.msg \notin Range(completed))
    /\ [][NoSecondRun]_vars

\* C19 witness: reply_error and then handle_message were called on the
\* envelope of an ask, whose caller got the error and whose handler ran
\* once; and handle_message was called twice on a later envelope, whose
\* handler ran once and whose caller got its one response.
C19_Witness ==
    /\ actor = "panicked"
    /\ \E m1, m2 \in Msgs :
          /\ m1 # m2
          /\ IsAsk(m1) /\ m1 \in rejected /\ m1 \in Range(completed)
          /\ deliveries[m1] = 1 /\ result[m1].kind = "Err"
          /\ discarded = {}
          /\ IsAsk(m2) /\ HeldId = m2 /\ m2 \in Range(completed)
          /\ deliveries[m2] = 1 /\ result[m2].kind = "Ok"
\* C14: cleanup, once called, returns, whatever the producers do.
C14_CleanupTerminates == (actor = "cleanup") ~> (actor # "cleanup")
\* The asks whose envelope entered the channel and was dropped unanswered.
DroppedAsks == {m \in discarded \cap Msgs : IsAsk(m)}

\* C16: an ask whose envelope was enqueued and then dropped without a reply
\* (by the death of the actor's task, by cleanup, or with the mailbox) is
\* not left waiting: its reply slot is ready with the receive failure, the
\* caller is resumed and gets MessageResponseReceiveError.
C16_DroppedAskFails ==
    /\ [](\A m \in DroppedAsks :
            /\ m \in Range(SentMsgs)
            /\ slot[m].val.kind = "None"
            /\ deliveries[m] = 0
            /\ callst[m] \in {"awaiting", "returned"}
            /\ callst[m] = "awaiting" =>
                  OneshotReady(slot[m]) /\ ENABLED AwaitResponse(m)
            /\ callst[m] = "returned" =>
                  result[m] = ErrVal("MessageResponseReceiveError"))
    /\ \A m \in Msgs :
          (m \in DroppedAsks /\ callst[m] = "awaiting")
              ~> (callst[m] = "returned")

\* C16 witness: every ask of a run that ended with cleanup and the drop of
\* the mailbox was dropped unanswered (the two producers never have all of
\* them queued at once, so not all of them went with the mailbox), and
\* each caller got MessageResponseReceiveError.
C16_Witness ==
    /\ actor = "exited"
    /\ DroppedAsks = Msgs
    /\ \A m \in Msgs : /\ callst[m] = "returned"
                       /\ result[m] = ErrVal("MessageResponseReceiveError")
\* The data plane is backed up: the channel is at capacity and a producer
\* is suspended in its send.
DataPlaneBackedUp ==
    /\ Len(queue) = Capacity
    /\ \E m \in Msgs : callst[m] = "blocked"

\* What a step that sends, resumes or receives a command does is decided
\* by the control channel alone.
ControlStep ==
    /\ \A c \in Cmds :
          (cst[c] \in {"unissued", "blocked"} /\ cst'[c] # cst[c]) =>
             /\ (~cclosed /\ Len(cqueue) < ServiceCapacity) =>
                   /\ cqueue' = Append(cqueue, ServicePacket(c))
                   /\ cst'[c] = "awaiting"
             /\ (~cclosed /\ Len(cqueue) >= ServiceCapacity) =>
                   cst'[c] = "blocked" /\ cqueue' = cqueue
    /\ (cactor = "idle" /\ cactor' = "holding") =>
          ccur' = Head(cqueue).cmd /\ cqueue' = Tail(cqueue)

\* C11: in every state of the data plane, a backed-up one included, a
\* command can be sent, is enqueued whenever the control channel has room,
\* and is received whenever the control consumer asks for one: neither
\* step looks at the data-plane channel, and none of them touches it.
C11_ControlIndependent ==
    /\ [](/\ \A c \in Cmds : NextCmd(c) => ENABLED ServiceSend(c)
          /\ \A c \in Cmds :
                (cst[c] = "blocked" /\ ~cclosed
                     /\ Len(cqueue) < ServiceCapacity)
                    => ENABLED ServiceSendResume(c)
          /\ (cactor = "idle" /\ ~cclosed /\ cqueue # << >>)
                => ENABLED ServiceRecv
          /\ Len(cqueue) <= ServiceCapacity)
    /\ [][ControlStep]_vars
    /\ [][cqueue' # cqueue => UNCHANGED <<queue, callst, actor>>]_vars

\* C11 witness: with the data plane backed up and not one of its envelopes
\* consumed, a command was sent, received and acknowledged, and the next
\* one is in the control channel.
C11_Witness ==
    /\ DataPlaneBackedUp
    /\ handled = << >> /\ actor = "idle"
    /\ cst[1] = "returned" /\ cres[1] = OkUnit
    /\ cst[2] = "awaiting" /\ Len(cqueue) = 1

\* A call that has returned keeps its one result.
ResultIsFinal ==
    \A c \in Cmds : cst[c] = "returned" =>
        cst'[c] = "returned" /\ cres'[c] = cres[c]

\* C12: every command sent gets one answer: no reply slot ever receives a
\* second value, a call that returned has exactly one result, Ok(()) or an
\* Err, which is the value the consumer put into its slot if it put one,
\* and a call that is under way returns: a command that was dropped with
\* the ServiceMailbox is reported as Err(MessageResponseReceiveError), a
\* command sent after that as Err(MessageSendError).
C12_CommandAcknowledgedOnce ==
    /\ [](\A c \in Cmds :
            /\ acks[c] <= 1
            /\ cst[c] = "returned" =>
                  /\ cres[c].kind \in {"Ok", "Err"}
                  /\ acks[c] = 1 => cres[c] = cslot[c].val
                  /\ acks[c] = 0 =>
                        cres[c] \in {ErrVal("MessageResponseReceiveError"),
                                     ErrVal(SendErrorKind)}
            /\ cst[c] # "returned" => cres[c] = NoVal)
    /\ [][ResultIsFinal]_vars
    /\ \A c \in Cmds : (cst[c] \in {"blocked", "awaiting"})
                           ~> (cst[c] = "returned")

\* C12 witness: one command was accepted and the next one rejected, each
\* caller holding the answer the consumer gave to its command.
C12_Witness ==
    /\ cst[1] = "returned" /\ cres[1] = OkUnit /\ acks[1] = 1
    /\ cst[2] = "returned" /\ cres[2] = ErrVal("Rejected") /\ acks[2] = 1
\* The value of the last status write, or the initial status.
LastWritten == IF writes = << >> THEN InitialStatus ELSE writes[Len(writes)]
\* The callback was last invoked with the value of write n.
GotWrite(n) ==
    /\ cbgot # << >>
    /\ cbgot[Len(cbgot)].ver = n
    /\ cbgot[Len(cbgot)].value = writes[n]

StatusSafety ==
    /\ GetStatus = LastWritten
    /\ wver = Len(writes)
    /\ \A i \in 1..Len(cbgot) :
          /\ cbgot[i].ver \in 1..Len(writes)
          /\ cbgot[i].value = writes[cbgot[i].ver]
          /\ \A j \in 1..Len(cbgot) : i < j => cbgot[i].ver <= cbgot[j].ver
    /\ cbpc = "ended" => /\ ~wsrc
                          /\ wver > 0 => GotWrite(wver)

\* C13: get_status returns the value of the last status write; a callback
\* is invoked only with values that were written, never with one older
\* than one it was given before (it may skip writes); once write n has
\* happened after the callback was registered, either a later write
\* follows or the callback is invoked with the value of write n; and the
\* callback's task ends once the source is dropped, having delivered the
\* last value first.
C13_StatusBroadcast ==
    /\ []StatusSafety
    /\ \A n \in 1..MaxWrites :
          (cbpc # "none" /\ cbreg < n /\ wver = n)
              ~> (wver > n \/ GotWrite(n))
    /\ (~wsrc /\ cbpc # "none") ~> (cbpc = "ended")

\* C13 witness: the callback, registered before the first of three writes,
\* was given the first and the third value and never the second, and its
\* task ended after the source was dropped.
C13_Witness ==
    /\ cbpc = "ended"
    /\ cbreg = 0
    /\ Len(writes) = 3
    /\ Len(cbgot) = 2
    /\ cbgot[1].ver = 1 /\ cbgot[2].ver = 3
    /\ writes[1] # writes[2] /\ writes[2] # writes[3]
    /\ GetStatus = writes[3]
====
